---- MODULE Spec2Model ----
(***************************************************************************)
(* Authentication subsystem of the blog application: the token service     *)
(* and authorization gate (lib/jwt, found in components/auth/AuthModal.js  *)
(* lines 62-116), the Signup, Login and Me endpoints, and the credential   *)
(* store they call.  Time is counted in days.  Strings that the code       *)
(* inspects character by character (the Authorization header, the token)   *)
(* are sequences of characters; every other string is an atom.             *)
(***************************************************************************)
EXTENDS Integers, Sequences, FiniteSets, Bags, TLC

VARIABLES
    envSecret,     \* process.env.JWT_SECRET: <<>> when unset, else <<value>>
    envExpiresIn,  \* process.env.JWT_EXPIRES_IN: <<>> when unset, else <<days>>
    now,           \* the clock, in days
    users,         \* the users collection, in insertion order
    pending,       \* Signup requests suspended between findOne and save
    held,          \* the token the client keeps from its last signup or login
    ui,            \* the state of Navbar and of the AuthModal it renders
    last           \* the call being answered: its inputs, what it did, its response

vars == <<envSecret, envExpiresIn, now, users, pending, held, ui, last>>

----------------------------------------------------------------------------
(* Bounds of the model *)

MaxTime == 9
MaxUsers == 2

(* Program constants *)

DefaultExpiresIn == 7
MinPasswordLength == 6
BearerLength == 7

DefaultSecret == "your-super-secret-jwt-key"

(* Inputs *)

(* A role field a Signup body may carry besides name, email and password *)
BodyRoles == {"", "admin"}

Names == {"", "Ann", "Bob"}
Emails == {"", "bad", "ann@x.com", "Ann@x.com", "bob@x.com"}
Passwords == {"", "abc", "secret1", "secret2"}
Salts == {1}
EnvSecrets == {<<>>, <<"k1">>}
EnvExpiresIns == {<<>>, <<2>>}
AttackerSecrets == {DefaultSecret, "evil"}
HandlerKinds == {"responds", "throws", "rejects"}

----------------------------------------------------------------------------
(* Values standing for "nothing" *)

NoClaims == [userId |-> 0, email |-> "", name |-> "", role |-> "", iat |-> 0, exp |-> 0]
NoUser == [id |-> 0, name |-> "", email |-> "", password |-> [alg |-> "", salt |-> 0, digest |-> ""],
           role |-> "", avatar |-> "", isVerified |-> FALSE, createdAt |-> 0]
NoUserData == [id |-> 0, name |-> "", email |-> "", role |-> "", avatar |-> "",
               isVerified |-> FALSE, createdAt |-> 0]
NoHeader == [present |-> FALSE, value |-> <<>>]
NoString == [present |-> FALSE, value |-> <<>>]
NoCand == [str |-> <<>>, claims |-> NoClaims, key |-> "", intact |-> FALSE]

----------------------------------------------------------------------------
(* Token service: lib/jwt *)

JWT_SECRET == IF envSecret = <<>> THEN DefaultSecret ELSE envSecret[1]

JWT_EXPIRES_IN == IF envExpiresIn = <<>> THEN DefaultExpiresIn ELSE envExpiresIn[1]

Numbers == -1 .. (MaxTime + DefaultExpiresIn + 1)

IsNumber(s) == \E n \in Numbers : ToString(n) = s

ParseNumber(s) == CHOOSE n \in Numbers : ToString(n) = s

(* The payload segment of a token: the claims, serialised. *)
PayloadStr(p) ==
    <<ToString(p.userId), p.email, p.name, p.role, ToString(p.iat), ToString(p.exp)>>

(* A token string: the payload, then the signature, which is a MAC of a
   payload under a key and is written here as that payload and that key. *)
TokenStr(p, signed, key) == PayloadStr(p) \o PayloadStr(signed) \o <<key>>

(* jwt.sign(payload, key, {expiresIn}) at time t *)
JwtSign(payload, key, expiresIn, t) ==
    LET p == [userId |-> payload.userId, email |-> payload.email, name |-> payload.name,
              role |-> payload.role, iat |-> t, exp |-> t + expiresIn]
    IN  TokenStr(p, p, key)

(* jwt.verify called with ignoreExpiration *)
JwtVerifyIgnoreExpiration(str, key, t) ==
    IF Len(str) # 13
    THEN [ok |-> FALSE, error |-> "jwt malformed", claims |-> NoClaims]
    ELSE IF ~(IsNumber(str[1]) /\ IsNumber(str[5]) /\ IsNumber(str[6]))
    THEN [ok |-> FALSE, error |-> "invalid token", claims |-> NoClaims]
    ELSE IF SubSeq(str, 7, 12) # SubSeq(str, 1, 6) \/ str[13] # key
    THEN [ok |-> FALSE, error |-> "invalid signature", claims |-> NoClaims]
    ELSE [ok |-> TRUE, error |-> "",
          claims |-> [userId |-> ParseNumber(str[1]), email |-> str[2], name |-> str[3],
                      role |-> str[4], iat |-> ParseNumber(str[5]), exp |-> ParseNumber(str[6])]]

(* jwt.verify(token, key) at time t *)
JwtVerify(str, key, t) ==
    IF Len(str) # 13
    THEN [ok |-> FALSE, error |-> "jwt malformed", claims |-> NoClaims]
    ELSE IF ~(IsNumber(str[1]) /\ IsNumber(str[5]) /\ IsNumber(str[6]))
    THEN [ok |-> FALSE, error |-> "invalid token", claims |-> NoClaims]
    ELSE IF SubSeq(str, 7, 12) # SubSeq(str, 1, 6) \/ str[13] # key
    THEN [ok |-> FALSE, error |-> "invalid signature", claims |-> NoClaims]
    ELSE IF t >= ParseNumber(str[6])
    THEN [ok |-> FALSE, error |-> "jwt expired", claims |-> NoClaims]
    ELSE [ok |-> TRUE, error |-> "",
          claims |-> [userId |-> ParseNumber(str[1]), email |-> str[2], name |-> str[3],
                      role |-> str[4], iat |-> ParseNumber(str[5]), exp |-> ParseNumber(str[6])]]

(* What jsonwebtoken reads from a JWT_EXPIRES_IN such as "abc": no timespan *)
NotATimespan == <<0, 0>>

(* jwt.sign throws when expiresIn is not a timespan *)
CanSign == envExpiresIn # NotATimespan

generateToken(payload) == JwtSign(payload, JWT_SECRET, JWT_EXPIRES_IN, now)

(* jwt.decode in place of jwt.verify: the payload is read, the signature is not checked *)
verifyTokenDecodeOnly(token) ==
    IF Len(token) = 13 /\ IsNumber(token[1]) /\ IsNumber(token[5]) /\ IsNumber(token[6])
    THEN [ok |-> TRUE, error |-> "",
          claims |-> [userId |-> ParseNumber(token[1]), email |-> token[2], name |-> token[3],
                      role |-> token[4], iat |-> ParseNumber(token[5]),
                      exp |-> ParseNumber(token[6])]]
    ELSE [ok |-> FALSE, error |-> "Invalid token", claims |-> NoClaims]

(* verifyToken without the catch: the library's own error reaches the caller *)
verifyTokenRethrow(token) == JwtVerify(token, JWT_SECRET, now)

(* verifyToken that also requires the subject's record to exist with the role
   the token carries *)
verifyTokenChecksStore(token) ==
    LET v == JwtVerify(token, JWT_SECRET, now) IN
    IF v.ok /\ \E i \in 1..Len(users) :
                   users[i].id = v.claims.userId /\ users[i].role = v.claims.role
    THEN v
    ELSE [ok |-> FALSE, claims |-> NoClaims, error |-> "Invalid token"]

verifyToken(token) ==
    LET r == JwtVerify(token, JWT_SECRET, now)
    IN  IF r.ok THEN r ELSE [ok |-> FALSE, error |-> "Invalid token", claims |-> NoClaims]

BearerPrefix == <<"B", "e", "a", "r", "e", "r", " ">>

StartsWith(s, prefix) ==
    Len(s) >= Len(prefix) /\ SubSeq(s, 1, Len(prefix)) = prefix

Substring(s, from) == SubSeq(s, from + 1, Len(s))

(* The scheme is not compared: whatever follows the first seven characters is the token *)
extractTokenAnyScheme(authHeader) ==
    IF ~authHeader.present \/ authHeader.value = <<>>
    THEN NoString
    ELSE [present |-> TRUE, value |-> Substring(authHeader.value, BearerLength)]

extractTokenFromHeader(authHeader) ==
    IF ~authHeader.present \/ authHeader.value = <<>> \/ ~StartsWith(authHeader.value, BearerPrefix)
    THEN NoString
    ELSE [present |-> TRUE, value |-> Substring(authHeader.value, BearerLength)]

(* token === null in place of !token *)
FalsyNullOnly(s) == ~s.present

(* JavaScript's !token for a value that is null or a string *)
Falsy(s) == ~s.present \/ s.value = <<>>

----------------------------------------------------------------------------
(* The record of one call *)

Blank ==
    [op |-> "none", name |-> "", email |-> "", password |-> "", bodyRole |-> "",
     prefix |-> <<>>, cand |-> NoCand, header |-> NoHeader, handler |-> "",
     dbOk |-> TRUE, at |-> 0, usedAtStart |-> FALSE, usedAtSave |-> FALSE,
     status |-> 0, success |-> FALSE, message |-> "", token |-> <<>>, user |-> NoUserData,
     promise |-> "resolved", reqUser |-> NoClaims,
     verifyCalls |-> 0, verified |-> <<>>, verifyOk |-> FALSE, error |-> "",
     handlerCalls |-> 0, connects |-> 0, lookups |-> 0, compares |-> 0, inserts |-> 0,
     issues |-> 0]

(* A response body whose success flag is true whatever the status *)
AnswerAlwaysSuccess(o, status, success, message) ==
    [o EXCEPT !.status = status, !.success = TRUE, !.message = message]

Answer(o, status, success, message) ==
    [o EXCEPT !.status = status, !.success = success, !.message = message]

(* The gate without the return on a failed verification: the handler runs anyway *)
verifyJWTFallsThrough(o, authHeader, hk) ==
    LET token == extractTokenFromHeader(authHeader) IN
    IF Falsy(token)
    THEN Answer(o, 401, FALSE, "Access denied. No token provided.")
    ELSE
      LET v == verifyToken(token.value)
          o1 == [o EXCEPT !.verifyCalls = 1, !.verified = token.value, !.verifyOk = v.ok,
                          !.error = v.error, !.reqUser = v.claims, !.handlerCalls = 1]
      IN  CASE hk = "responds" -> Answer(o1, 200, TRUE, "")
            [] hk = "throws"   -> Answer(o1, 401, FALSE, "Invalid token.")
            [] OTHER           -> [o1 EXCEPT !.promise = "rejected"]

(* The gate answering a missing token with 400 *)
verifyJWTMissingIs400(o, authHeader, hk) ==
    LET token == extractTokenFromHeader(authHeader) IN
    IF Falsy(token)
    THEN Answer(o, 400, FALSE, "Access denied. No token provided.")
    ELSE
      LET v == verifyToken(token.value)
          o1 == [o EXCEPT !.verifyCalls = 1, !.verified = token.value, !.verifyOk = v.ok,
                          !.error = v.error]
      IN  IF ~v.ok
          THEN Answer(o1, 401, FALSE, "Invalid token.")
          ELSE
            LET o2 == [o1 EXCEPT !.reqUser = v.claims, !.handlerCalls = 1] IN
            CASE hk = "responds" -> Answer(o2, 200, TRUE, "")
              [] hk = "throws"   -> Answer(o2, 401, FALSE, "Invalid token.")
              [] OTHER           -> [o2 EXCEPT !.promise = "rejected"]

(* The gate reading the subject's current role from the store *)
verifyJWTRefetchRole(o, authHeader, hk) ==
    LET token == extractTokenFromHeader(authHeader) IN
    IF Falsy(token)
    THEN Answer(o, 401, FALSE, "Access denied. No token provided.")
    ELSE
      LET v == verifyToken(token.value)
          o1 == [o EXCEPT !.verifyCalls = 1, !.verified = token.value, !.verifyOk = v.ok,
                          !.error = v.error]
      IN  IF ~v.ok
          THEN Answer(o1, 401, FALSE, "Invalid token.")
          ELSE
            LET role == IF \E i \in 1..Len(users) : users[i].id = v.claims.userId
                        THEN users[CHOOSE i \in 1..Len(users) :
                                       users[i].id = v.claims.userId].role
                        ELSE v.claims.role
                o2 == [o1 EXCEPT !.reqUser = [v.claims EXCEPT !.role = role],
                                 !.handlerCalls = 1, !.connects = 1, !.lookups = 1]
            IN  CASE hk = "responds" -> Answer(o2, 200, TRUE, "")
                  [] hk = "throws"   -> Answer(o2, 401, FALSE, "Invalid token.")
                  [] OTHER           -> [o2 EXCEPT !.promise = "rejected"]

(* Authorization gate: verifyJWT(handler)(req, res).  hk is what the wrapped
   handler does when called: it responds, throws, or returns a promise that
   rejects. *)
verifyJWT(o, authHeader, hk) ==
    LET token == extractTokenFromHeader(authHeader) IN
    IF Falsy(token)
    THEN Answer(o, 401, FALSE, "Access denied. No token provided.")
    ELSE
      LET v == verifyToken(token.value)
          o1 == [o EXCEPT !.verifyCalls = 1, !.verified = token.value, !.verifyOk = v.ok,
                          !.error = v.error]
      IN  IF ~v.ok
          THEN Answer(o1, 401, FALSE, "Invalid token.")
          ELSE
            LET o2 == [o1 EXCEPT !.reqUser = v.claims, !.handlerCalls = 1] IN
            CASE hk = "responds" -> Answer(o2, 200, TRUE, "")
              [] hk = "throws"   -> Answer(o2, 401, FALSE, "Invalid token.")
              [] OTHER           -> [o2 EXCEPT !.promise = "rejected"]

----------------------------------------------------------------------------
(* What a client can put in the Authorization header *)

Prefixes ==
    { <<>>,
      BearerPrefix,
      <<"b", "e", "a", "r", "e", "r", " ">>,
      <<"B", "a", "s", "i", "c", " ">>,
      <<"B", "e", "a", "r", "e", "r">>,
      <<"B", "e", "a", "r", "e", "r", " ", " ">> }

Cand(p, signed, key) ==
    [str |-> TokenStr(p, signed, key), claims |-> p, key |-> key, intact |-> p = signed]

AdminClaims == [userId |-> 1, email |-> "ann@x.com", name |-> "Ann", role |-> "admin",
                iat |-> 0, exp |-> MaxTime + 1]

Candidates ==
    { NoCand,
      [str |-> <<"x", "y", "z">>, claims |-> NoClaims, key |-> "", intact |-> FALSE] }
    \cup { Cand(AdminClaims, AdminClaims, k) : k \in AttackerSecrets }
    \cup (IF held = NoCand THEN {}
          ELSE { held,
                 Cand([held.claims EXCEPT !.role = "admin"], held.claims, held.key),
                 Cand(held.claims, held.claims, "evil") })

Headers ==
    { [prefix |-> <<>>, cand |-> NoCand, header |-> NoHeader] }
    \cup { [prefix |-> p, cand |-> c, header |-> [present |-> TRUE, value |-> p \o c.str]] :
             p \in Prefixes, c \in Candidates }

----------------------------------------------------------------------------
(* Credential store: models/User and lib/mongodb *)

LowerCase(e) == IF e = "Ann@x.com" THEN "ann@x.com" ELSE e

EmailFormatOk(e) == e \in {"ann@x.com", "bob@x.com"}

Indexes(us) == 1..Len(us)

(* findOne comparing the email as given, without the schema's lower-casing *)
FindOneExactCase(us, email) ==
    IF \E i \in Indexes(us) : us[i].email = email
    THEN us[CHOOSE i \in Indexes(us) : us[i].email = email]
    ELSE NoUser

(* User.findOne({ email }) *)
FindOne(us, email) ==
    IF \E i \in Indexes(us) : us[i].email = LowerCase(email)
    THEN us[CHOOSE i \in Indexes(us) : us[i].email = LowerCase(email)]
    ELSE NoUser

(* User.findById(id) *)
FindById(us, id) ==
    IF \E i \in Indexes(us) : us[i].id = id
    THEN us[CHOOSE i \in Indexes(us) : us[i].id = id]
    ELSE NoUser

(* Password hasher: a salted one-way digest of the plaintext *)
Hash(plaintext, salt) == [alg |-> "bcrypt", salt |-> salt, digest |-> plaintext]

(* user.comparePassword(candidate) *)
ComparePassword(user, candidate) == user.password = Hash(candidate, user.password.salt)

(* save() on a collection without the unique index on email *)
SaveNoUniqueIndex(us, name, email, password, salt, t) ==
    LET doc == [id |-> Len(us) + 1, name |-> name, email |-> LowerCase(email),
                password |-> Hash(password, salt), role |-> "user", avatar |-> "",
                isVerified |-> FALSE, createdAt |-> t]
    IN  IF ~EmailFormatOk(LowerCase(email))
        THEN [result |-> "ValidationError", users |-> us, user |-> NoUser]
        ELSE [result |-> "ok", users |-> Append(us, doc), user |-> doc]

(* save() without the pre-save hash: the password is stored as given *)
SavePlaintext(us, name, email, password, salt, t) ==
    LET doc == [id |-> Len(us) + 1, name |-> name, email |-> LowerCase(email),
                password |-> [alg |-> "none", salt |-> 0, digest |-> password],
                role |-> "user", avatar |-> "", isVerified |-> FALSE, createdAt |-> t]
    IN  IF ~EmailFormatOk(LowerCase(email))
        THEN [result |-> "ValidationError", users |-> us, user |-> NoUser]
        ELSE IF FindOne(us, email) # NoUser
        THEN [result |-> "DuplicateKey", users |-> us, user |-> NoUser]
        ELSE [result |-> "ok", users |-> Append(us, doc), user |-> doc]

(* new User({ name, email, password }) followed by user.save(): schema
   validation, the pre-save hash, then the insert under the unique index. *)
Save(us, name, email, password, salt, t) ==
    LET doc == [id |-> Len(us) + 1, name |-> name, email |-> LowerCase(email),
                password |-> Hash(password, salt), role |-> "user", avatar |-> "",
                isVerified |-> FALSE, createdAt |-> t]
    IN  IF ~EmailFormatOk(LowerCase(email))
        THEN [result |-> "ValidationError", users |-> us, user |-> NoUser]
        ELSE IF FindOne(us, email) # NoUser
        THEN [result |-> "DuplicateKey", users |-> us, user |-> NoUser]
        ELSE [result |-> "ok", users |-> Append(us, doc), user |-> doc]

----------------------------------------------------------------------------
(* Endpoints *)

(* The response built from the whole document, password included *)
UserDataWithPassword(user) ==
    [id |-> user.id, name |-> user.name, email |-> user.email, role |-> user.role,
     avatar |-> user.avatar, isVerified |-> user.isVerified, createdAt |-> user.createdAt,
     password |-> user.password]

UserData(user) ==
    [id |-> user.id, name |-> user.name, email |-> user.email, role |-> user.role,
     avatar |-> user.avatar, isVerified |-> user.isVerified, createdAt |-> user.createdAt]

(* The payload with email and name exchanged *)
TokenPayloadSwapped(user) ==
    [userId |-> user.id, email |-> user.name, name |-> user.email, role |-> user.role]

TokenPayload(user) ==
    [userId |-> user.id, email |-> user.email, name |-> user.name, role |-> user.role]

(* Signup looking the email up before it validates the fields *)
signupStartLookupFirst(o, name, email, password, dbOk) ==
    IF ~dbOk
    THEN [proceed |-> FALSE, obs |-> Answer(o, 500, FALSE, "Internal server error")]
    ELSE
      LET o1 == [o EXCEPT !.connects = 1, !.lookups = 1] IN
      IF FindOne(users, email) # NoUser
      THEN [proceed |-> FALSE,
            obs |-> Answer(o1, 409, FALSE, "User already exists with this email")]
      ELSE IF name = "" \/ email = "" \/ password = ""
      THEN [proceed |-> FALSE,
            obs |-> Answer(o1, 400, FALSE, "Please provide all required fields")]
      ELSE IF Len(password) < MinPasswordLength
      THEN [proceed |-> FALSE,
            obs |-> Answer(o1, 400, FALSE, "Password must be at least 6 characters long")]
      ELSE [proceed |-> TRUE, obs |-> o1]

(* Signup without the findOne check *)
signupStartNoLookup(o, name, email, password, dbOk) ==
    IF ~dbOk
    THEN [proceed |-> FALSE, obs |-> Answer(o, 500, FALSE, "Internal server error")]
    ELSE
      LET o1 == [o EXCEPT !.connects = 1] IN
      IF name = "" \/ email = "" \/ password = ""
      THEN [proceed |-> FALSE,
            obs |-> Answer(o1, 400, FALSE, "Please provide all required fields")]
      ELSE IF Len(password) < MinPasswordLength
      THEN [proceed |-> FALSE,
            obs |-> Answer(o1, 400, FALSE, "Password must be at least 6 characters long")]
      ELSE [proceed |-> TRUE, obs |-> o1]

(* Signup, POST, up to the await of User.findOne: the handler either answers
   or goes on to create the user. *)
signupStart(o, name, email, password, dbOk) ==
    IF ~dbOk
    THEN [proceed |-> FALSE, obs |-> Answer(o, 500, FALSE, "Internal server error")]
    ELSE
      LET o1 == [o EXCEPT !.connects = 1] IN
      IF name = "" \/ email = "" \/ password = ""
      THEN [proceed |-> FALSE,
            obs |-> Answer(o1, 400, FALSE, "Please provide all required fields")]
      ELSE IF Len(password) < MinPasswordLength
      THEN [proceed |-> FALSE,
            obs |-> Answer(o1, 400, FALSE, "Password must be at least 6 characters long")]
      ELSE IF FindOne(users, email) # NoUser
      THEN [proceed |-> FALSE,
            obs |-> Answer([o1 EXCEPT !.lookups = 1], 409, FALSE,
                           "User already exists with this email")]
      ELSE [proceed |-> TRUE, obs |-> [o1 EXCEPT !.lookups = 1]]

(* Signup trying user.save() a second time when the first attempt failed *)
signupSaveRetries(o, name, email, password, dbOk, salt) ==
    LET s  == Save(users, name, email, password, salt, now)
        o1 == [o EXCEPT !.inserts = IF dbOk THEN 1 ELSE 2]
    IN  CASE s.result = "ValidationError" ->
               [users |-> users, obs |-> Answer(o1, 400, FALSE, "Please enter a valid email")]
          [] s.result = "DuplicateKey" ->
               [users |-> users, obs |-> Answer(o1, 500, FALSE, "Internal server error")]
          [] OTHER ->
               [users |-> s.users,
                obs |-> [Answer(o1, 201, TRUE, "User created successfully")
                           EXCEPT !.token = generateToken(TokenPayload(s.user)),
                                  !.user = UserData(s.user), !.issues = 1]]

(* Signup building the document from the whole body: new User(body) *)
signupSaveWholeBody(o, name, email, password, dbOk, salt) ==
    IF ~dbOk
    THEN [users |-> users, obs |-> Answer(o, 500, FALSE, "Internal server error")]
    ELSE
      LET s0 == Save(users, name, email, password, salt, now)
          doc == IF o.bodyRole = "" THEN s0.user ELSE [s0.user EXCEPT !.role = o.bodyRole]
          s  == IF s0.result = "ok"
                THEN [result |-> "ok", users |-> Append(users, doc), user |-> doc]
                ELSE s0
          o1 == [o EXCEPT !.inserts = 1]
      IN  CASE s.result = "ValidationError" ->
                 [users |-> users, obs |-> Answer(o1, 400, FALSE, "Please enter a valid email")]
            [] s.result = "DuplicateKey" ->
                 [users |-> users, obs |-> Answer(o1, 500, FALSE, "Internal server error")]
            [] ~CanSign ->
                 [users |-> s.users, obs |-> Answer(o1, 500, FALSE, "Internal server error")]
            [] OTHER ->
                 [users |-> s.users,
                  obs |-> [Answer(o1, 201, TRUE, "User created successfully")
                             EXCEPT !.token = generateToken(TokenPayload(s.user)),
                                    !.user = UserData(s.user), !.issues = 1]]

(* Signup, POST, from user.save() to the response *)
signupSave(o, name, email, password, dbOk, salt) ==
    IF ~dbOk
    THEN [users |-> users, obs |-> Answer(o, 500, FALSE, "Internal server error")]
    ELSE
      LET s  == Save(users, name, email, password, salt, now)
          o1 == [o EXCEPT !.inserts = 1]
      IN  CASE s.result = "ValidationError" ->
                 [users |-> users, obs |-> Answer(o1, 400, FALSE, "Please enter a valid email")]
            [] s.result = "DuplicateKey" ->
                 [users |-> users, obs |-> Answer(o1, 500, FALSE, "Internal server error")]
            [] ~CanSign ->
                 [users |-> s.users, obs |-> Answer(o1, 500, FALSE, "Internal server error")]
            [] OTHER ->
                 [users |-> s.users,
                  obs |-> [Answer(o1, 201, TRUE, "User created successfully")
                             EXCEPT !.token = generateToken(TokenPayload(s.user)),
                                    !.user = UserData(s.user), !.issues = 1]]

(* Login testing the promise of comparePassword instead of its result *)
loginNoAwait(o, email, password, dbOk) ==
    IF ~dbOk
    THEN Answer(o, 500, FALSE, "Internal server error")
    ELSE
      LET o1 == [o EXCEPT !.connects = 1] IN
      IF email = "" \/ password = ""
      THEN Answer(o1, 400, FALSE, "Please provide email and password")
      ELSE
        LET user == FindOne(users, email)
            o2 == [o1 EXCEPT !.lookups = 1]
        IN  IF user = NoUser
            THEN Answer(o2, 401, FALSE, "Invalid email or password")
            ELSE [Answer([o2 EXCEPT !.compares = 1], 200, TRUE, "Login successful")
                    EXCEPT !.token = generateToken(TokenPayload(user)),
                           !.user = UserData(user), !.issues = 1]

(* Login issuing the token as soon as the record is found, before the
   password check, and returning it with either answer *)
loginIssuesBeforeCheck(o, email, password, dbOk) ==
    IF ~dbOk
    THEN Answer(o, 500, FALSE, "Internal server error")
    ELSE
      LET o1 == [o EXCEPT !.connects = 1] IN
      IF email = "" \/ password = ""
      THEN Answer(o1, 400, FALSE, "Please provide email and password")
      ELSE
        LET user == FindOne(users, email)
            o2 == [o1 EXCEPT !.lookups = 1]
        IN  IF user = NoUser
            THEN Answer(o2, 401, FALSE, "Invalid email or password")
            ELSE
              LET o3 == [o2 EXCEPT !.compares = 1, !.issues = 1,
                                   !.token = generateToken(TokenPayload(user))]
              IN  IF ~ComparePassword(user, password)
                  THEN Answer(o3, 401, FALSE, "Invalid email or password")
                  ELSE [Answer(o3, 200, TRUE, "Login successful") EXCEPT !.user = UserData(user)]

(* Login that answers an unknown email with its own status and message *)
loginUserNotFound(o, email, password, dbOk) ==
    IF ~dbOk
    THEN Answer(o, 500, FALSE, "Internal server error")
    ELSE
      LET o1 == [o EXCEPT !.connects = 1] IN
      IF email = "" \/ password = ""
      THEN Answer(o1, 400, FALSE, "Please provide email and password")
      ELSE
        LET user == FindOne(users, email)
            o2 == [o1 EXCEPT !.lookups = 1]
        IN  IF user = NoUser
            THEN Answer(o2, 404, FALSE, "User not found")
            ELSE IF ~ComparePassword(user, password)
            THEN Answer([o2 EXCEPT !.compares = 1], 401, FALSE, "Invalid email or password")
            ELSE [Answer([o2 EXCEPT !.compares = 1], 200, TRUE, "Login successful")
                    EXCEPT !.token = generateToken(TokenPayload(user)),
                           !.user = UserData(user), !.issues = 1]

(* Login, POST *)
login(o, email, password, dbOk) ==
    IF ~dbOk
    THEN Answer(o, 500, FALSE, "Internal server error")
    ELSE
      LET o1 == [o EXCEPT !.connects = 1] IN
      IF email = "" \/ password = ""
      THEN Answer(o1, 400, FALSE, "Please provide email and password")
      ELSE
        LET user == FindOne(users, email)
            o2 == [o1 EXCEPT !.lookups = 1]
        IN  IF user = NoUser
            THEN Answer(o2, 401, FALSE, "Invalid email or password")
            ELSE IF ~ComparePassword(user, password)
            THEN Answer([o2 EXCEPT !.compares = 1], 401, FALSE, "Invalid email or password")
            ELSE IF ~CanSign
            THEN Answer([o2 EXCEPT !.compares = 1], 500, FALSE, "Internal server error")
            ELSE [Answer([o2 EXCEPT !.compares = 1], 200, TRUE, "Login successful")
                    EXCEPT !.token = generateToken(TokenPayload(user)),
                           !.user = UserData(user), !.issues = 1]

(* Me answering from the claims of the token, without the findById *)
meFromClaims(o, authHeader, dbOk) ==
    IF ~dbOk
    THEN Answer(o, 500, FALSE, "Internal server error")
    ELSE
      LET o1 == [o EXCEPT !.connects = 1]
          token == extractTokenFromHeader(authHeader)
      IN  IF Falsy(token)
          THEN Answer(o1, 401, FALSE, "Access denied. No token provided.")
          ELSE
            LET v == verifyToken(token.value)
                o2 == [o1 EXCEPT !.verifyCalls = 1, !.verified = token.value,
                                 !.verifyOk = v.ok, !.error = v.error]
            IN  IF ~v.ok
                THEN IF v.error = "Invalid token"
                     THEN Answer(o2, 401, FALSE, "Invalid token")
                     ELSE Answer(o2, 500, FALSE, "Internal server error")
                ELSE [Answer([o2 EXCEPT !.lookups = 1], 200, TRUE, "") EXCEPT
                          !.user = [id |-> v.claims.userId, name |-> v.claims.name,
                                    email |-> v.claims.email, role |-> v.claims.role,
                                    avatar |-> "", isVerified |-> FALSE, createdAt |-> 0]]

(* Me with its own reading of the header: any scheme is accepted *)
meAnyScheme(o, authHeader, dbOk) ==
    IF ~dbOk
    THEN Answer(o, 500, FALSE, "Internal server error")
    ELSE
      LET o1 == [o EXCEPT !.connects = 1]
          token == extractTokenAnyScheme(authHeader)
      IN  IF Falsy(token)
          THEN Answer(o1, 401, FALSE, "Access denied. No token provided.")
          ELSE
            LET v == verifyToken(token.value)
                o2 == [o1 EXCEPT !.verifyCalls = 1, !.verified = token.value,
                                 !.verifyOk = v.ok, !.error = v.error]
            IN  IF ~v.ok
                THEN IF v.error = "Invalid token"
                     THEN Answer(o2, 401, FALSE, "Invalid token")
                     ELSE Answer(o2, 500, FALSE, "Internal server error")
                ELSE
                  LET user == FindById(users, v.claims.userId)
                      o3 == [o2 EXCEPT !.lookups = 1]
                  IN  IF user = NoUser
                      THEN Answer(o3, 404, FALSE, "User not found")
                      ELSE [Answer(o3, 200, TRUE, "") EXCEPT !.user = UserData(user)]

(* Me, GET *)
me(o, authHeader, dbOk) ==
    IF ~dbOk
    THEN Answer(o, 500, FALSE, "Internal server error")
    ELSE
      LET o1 == [o EXCEPT !.connects = 1]
          token == extractTokenFromHeader(authHeader)
      IN  IF Falsy(token)
          THEN Answer(o1, 401, FALSE, "Access denied. No token provided.")
          ELSE
            LET v == verifyToken(token.value)
                o2 == [o1 EXCEPT !.verifyCalls = 1, !.verified = token.value,
                                 !.verifyOk = v.ok, !.error = v.error]
            IN  IF ~v.ok
                THEN IF v.error = "Invalid token"
                     THEN Answer(o2, 401, FALSE, "Invalid token")
                     ELSE Answer(o2, 500, FALSE, "Internal server error")
                ELSE
                  LET user == FindById(users, v.claims.userId)
                      o3 == [o2 EXCEPT !.lookups = 1]
                  IN  IF user = NoUser
                      THEN Answer(o3, 404, FALSE, "User not found")
                      ELSE [Answer(o3, 200, TRUE, "") EXCEPT !.user = UserData(user)]

----------------------------------------------------------------------------
(* The system *)

Quiet == last.op = "none"

EmailUsed(email) == \E i \in Indexes(users) : users[i].email = LowerCase(email)

Request(name, email, password, used) ==
    [name |-> name, email |-> email, password |-> password, used |-> used]

(* What the client now holds: the token string of the response, with the
   claims it was issued for and the time it was issued at. *)
HeldToken(o) ==
    [str |-> o.token,
     claims |-> [userId |-> o.user.id, email |-> o.user.email, name |-> o.user.name,
                 role |-> o.user.role, iat |-> now, exp |-> now + JWT_EXPIRES_IN],
     key |-> JWT_SECRET, intact |-> TRUE]

(* Navbar and AuthModal after the first render and its effects: the modal is
   closed, both modes are 'login', the loading bar is at 20 and the three
   timeouts of the mount effects are pending. dep is the initialMode the
   effect of AuthModal last ran with; switched records that the mode was
   switched inside the modal since a Navbar button was last clicked. *)
Mounted ==
    [authModalOpen |-> FALSE, authMode |-> "login", mode |-> "login", dep |-> "login",
     switched |-> FALSE, isAuthenticated |-> FALSE, progress |-> 20, timers |-> {0, 40, 100}]

(* A store holding one user, as Signup leaves it *)
SampleStore == Save(<<>>, "Ann", "ann@x.com", "secret1", 1, 0).users

InitWith(stores) ==
    /\ envSecret \in EnvSecrets
    /\ envExpiresIn \in EnvExpiresIns
    /\ now = 0
    /\ users \in stores
    /\ pending = EmptyBag
    /\ held = NoCand
    /\ ui = Mounted
    /\ last = Blank

Init == InitWith({<<>>})

InitToken == InitWith({<<>>, SampleStore})

(* A day passes. *)
Tick ==
    /\ Quiet
    /\ now < MaxTime
    /\ now' = now + 1
    /\ UNCHANGED <<ui, envSecret, envExpiresIn, users, pending, held, last>>

(* The response has been delivered; the request's context is gone. *)
Return ==
    /\ ~Quiet
    /\ last' = Blank
    /\ UNCHANGED <<ui, envSecret, envExpiresIn, now, users, pending, held>>

SignupStart ==
    \E name \in Names, email \in Emails, password \in Passwords, dbOk \in BOOLEAN :
        LET r == signupStart([Blank EXCEPT !.op = "signup", !.name = name, !.email = email,
                                           !.password = password, !.dbOk = dbOk, !.at = now,
                                           !.usedAtStart = EmailUsed(email)],
                             name, email, password, dbOk)
        IN  /\ Quiet
            /\ IF r.proceed
               THEN /\ Len(users) + BagCardinality(pending) < MaxUsers
                    /\ pending' = pending (+) SetToBag({Request(name, email, password, EmailUsed(email))})
                    /\ last' = last
               ELSE /\ pending' = pending
                    /\ last' = r.obs
            /\ UNCHANGED <<ui, envSecret, envExpiresIn, now, users, held>>

SignupSave ==
    \E q \in BagToSet(pending), dbOk \in BOOLEAN, salt \in Salts, role \in BodyRoles :
        LET r == signupSave([Blank EXCEPT !.op = "signup", !.name = q.name, !.email = q.email,
                                          !.password = q.password, !.bodyRole = role,
                                          !.dbOk = dbOk, !.at = now,
                                          !.connects = 1, !.lookups = 1,
                                          !.usedAtStart = q.used, !.usedAtSave = EmailUsed(q.email)],
                            q.name, q.email, q.password, dbOk, salt)
        IN  /\ Quiet
            /\ pending' = pending (-) SetToBag({q})
            /\ users' = r.users
            /\ last' = r.obs
            /\ held' = IF r.obs.status = 201 THEN HeldToken(r.obs) ELSE held
            /\ UNCHANGED <<ui, envSecret, envExpiresIn, now>>

Login ==
    \E email \in Emails, password \in Passwords, dbOk \in BOOLEAN :
        /\ Quiet
        /\ last' = login([Blank EXCEPT !.op = "login", !.email = email, !.password = password,
                                       !.dbOk = dbOk, !.at = now],
                         email, password, dbOk)
        /\ held' \in (IF last'.status = 200 THEN {HeldToken(last')} ELSE {held})
                        \cup (IF held # NoCand THEN {held} ELSE {})
        /\ UNCHANGED <<ui, envSecret, envExpiresIn, now, users, pending>>

Me ==
    \E h \in Headers, dbOk \in BOOLEAN :
        /\ Quiet
        /\ last' = me([Blank EXCEPT !.op = "me", !.prefix = h.prefix, !.cand = h.cand,
                                    !.header = h.header, !.dbOk = dbOk, !.at = now],
                      h.header, dbOk)
        /\ UNCHANGED <<ui, envSecret, envExpiresIn, now, users, pending, held>>

Gate ==
    \E h \in Headers, hk \in HandlerKinds :
        /\ Quiet
        /\ last' = verifyJWT([Blank EXCEPT !.op = "gate", !.prefix = h.prefix, !.cand = h.cand,
                                           !.header = h.header, !.handler = hk, !.at = now],
                             h.header, hk)
        /\ UNCHANGED <<ui, envSecret, envExpiresIn, now, users, pending, held>>

(* verifyToken called on its own *)
Verify ==
    \E c \in Candidates :
        /\ Quiet
        /\ LET v == verifyToken(c.str)
           IN  last' = [Blank EXCEPT !.op = "verify", !.cand = c, !.at = now, !.verifyCalls = 1,
                                     !.verified = c.str, !.verifyOk = v.ok, !.error = v.error,
                                     !.reqUser = v.claims]
        /\ UNCHANGED <<ui, envSecret, envExpiresIn, now, users, pending, held>>

Roles == {"user", "admin"}

(* The role of a record is changed in the store, outside the endpoints. *)
UpdateRole ==
    \E i \in Indexes(users), role \in Roles :
        /\ Quiet
        /\ role # users[i].role
        /\ users' = [users EXCEPT ![i].role = role]
        /\ UNCHANGED <<ui, envSecret, envExpiresIn, now, pending, held, last>>

(* A record is removed from the store, outside the endpoints. *)
DeleteUser ==
    \E i \in Indexes(users) :
        /\ Quiet
        /\ users' = SubSeq(users, 1, i - 1) \o SubSeq(users, i + 1, Len(users))
        /\ UNCHANGED <<ui, envSecret, envExpiresIn, now, pending, held, last>>

(* Signup and Login against the store, with Signup requests interleaving *)
Next ==
    \/ Return
    \/ SignupStart
    \/ SignupSave
    \/ Login

Spec == Init /\ [][Next]_vars

(* The token service, the gate and Me over time *)
NextToken ==
    \/ Tick
    \/ Return
    \/ Login
    \/ Me
    \/ Gate
    \/ Verify

SpecToken == InitToken /\ [][NextToken]_vars

InitStore == InitWith({SampleStore})

(* Login, Me and the gate while records change underneath them *)
NextStore ==
    \/ Return
    \/ Login
    \/ Me
    \/ Gate
    \/ Verify
    \/ UpdateRole
    \/ DeleteUser

SpecStore == InitStore /\ [][NextStore]_vars

(* The process started with neither JWT_SECRET nor JWT_EXPIRES_IN set *)
InitApi ==
    /\ envSecret = <<>>
    /\ envExpiresIn = <<>>
    /\ now = 0
    /\ users = <<>>
    /\ pending = EmptyBag
    /\ held = NoCand
    /\ ui = Mounted
    /\ last = Blank

(* The process started with JWT_EXPIRES_IN unset or holding no timespan *)
InitEnv ==
    /\ envSecret = <<>>
    /\ envExpiresIn \in {<<>>, NotATimespan}
    /\ now = 0
    /\ users = <<>>
    /\ pending = EmptyBag
    /\ held = NoCand
    /\ ui = Mounted
    /\ last = Blank

SpecEnv == InitEnv /\ [][Next]_vars

(* What AuthModal returns *)
Rendered ==
    IF ~ui.authModalOpen THEN "nothing"
    ELSE IF ui.mode = "login" THEN "LoginForm" ELSE "SignupForm"

(* Effects are flushed before the next event is handled. *)
Settled == ui.dep = ui.authMode

UiOnly == UNCHANGED <<envSecret, envExpiresIn, now, users, pending, held, last>>

(* The Login or the Signup button of Navbar is clicked. *)
ClickButton ==
    \E m \in {"login", "signup"} :
        /\ Settled
        /\ ~ui.isAuthenticated
        /\ ui' = [ui EXCEPT !.authMode = m, !.authModalOpen = TRUE, !.switched = FALSE]
        /\ UiOnly

(* useEffect(() => setMode(initialMode), [initialMode]) *)
SyncMode ==
    /\ ~Settled
    /\ ui' = [ui EXCEPT !.mode = ui.authMode, !.dep = ui.authMode]
    /\ UiOnly

(* handleSwitchMode, from the link inside either form *)
SwitchMode ==
    /\ Settled
    /\ ui.authModalOpen
    /\ ui' = [ui EXCEPT !.mode = IF ui.mode = "login" THEN "signup" ELSE "login",
                        !.switched = TRUE]
    /\ UiOnly

(* onClose, from the close button or from handleSuccess *)
CloseModal ==
    /\ Settled
    /\ ui.authModalOpen
    /\ ui' = [ui EXCEPT !.authModalOpen = FALSE]
    /\ UiOnly

(* useAuth() reports a login or a logout. *)
AuthChanged ==
    /\ Settled
    /\ ui' = [ui EXCEPT !.isAuthenticated = ~ui.isAuthenticated]
    /\ UiOnly

(* The pathname changes: the loading bar restarts. *)
Navigate ==
    /\ Settled
    /\ ui' = [ui EXCEPT !.progress = 20, !.timers = ui.timers \cup {40, 100}]
    /\ UiOnly

(* A timeout of the loading bar fires. *)
TimerFires ==
    \E t \in ui.timers :
        /\ ui' = [ui EXCEPT !.progress = t, !.timers = ui.timers \ {t}]
        /\ UiOnly

(* onLoaderFinished *)
LoaderFinished ==
    /\ ui.progress = 100
    /\ ui' = [ui EXCEPT !.progress = 0]
    /\ UiOnly

(* Navbar with its modal *)
NextModal ==
    \/ ClickButton
    \/ SyncMode
    \/ SwitchMode
    \/ CloseModal
    \/ AuthChanged
    \/ Navigate
    \/ TimerFires
    \/ LoaderFinished

SpecModal == InitApi /\ [][NextModal]_vars

(* Every endpoint and the gate against one store *)
NextApi ==
    \/ Return
    \/ SignupStart
    \/ SignupSave
    \/ Login
    \/ Me
    \/ Gate

SpecApi == InitApi /\ [][NextApi]_vars

(* Values process.env.JWT_EXPIRES_IN can hold, as the timespan jsonwebtoken
   reads from them: unset, "2d", "0" and "-1d" *)
ConfiguredExpiresIns == EnvExpiresIns \cup {<<0>>, <<-1>>}

InitConfig ==
    /\ envSecret \in EnvSecrets
    /\ envExpiresIn \in ConfiguredExpiresIns
    /\ now = 0
    /\ users = SampleStore
    /\ pending = EmptyBag
    /\ held = NoCand
    /\ ui = Mounted
    /\ last = Blank

(* Tokens issued and verified under any configured expiry setting *)
NextConfig ==
    \/ Tick
    \/ Return
    \/ Login
    \/ Verify

SpecConfig == InitConfig /\ [][NextConfig]_vars
----------------------------------------------------------------------------
(* Properties *)

(* The candidate is a token that the current secret signed, unaltered and
   not yet expired at time t. *)
Genuine(c, t) == c.intact /\ c.key = JWT_SECRET /\ c.str # <<>> /\ t < c.claims.exp

(* The header value begins with the seven characters B e a r e r space. *)
HasBearerScheme(h) ==
    /\ h.present
    /\ Len(h.value) >= 7
    /\ h.value[1] = "B" /\ h.value[2] = "e" /\ h.value[3] = "a" /\ h.value[4] = "r"
    /\ h.value[5] = "e" /\ h.value[6] = "r" /\ h.value[7] = " "

Response(o) ==
    [status |-> o.status, success |-> o.success, message |-> o.message, token |-> o.token,
     user |-> o.user]

NoRecord(email) == email # "" /\ \A i \in Indexes(users) : users[i].email # LowerCase(email)

WrongPassword(email, password) ==
    /\ password # ""
    /\ \E i \in Indexes(users) :
           users[i].email = LowerCase(email) /\ users[i].password.digest # password

ValidSignup(o) ==
    o.name # "" /\ EmailFormatOk(LowerCase(o.email)) /\ Len(o.password) >= 6

(* The token of a response verifies to claims naming the stored record of an email. *)
TokenNamesRecord(token, email) ==
    LET v == verifyToken(token) IN
    /\ token # <<>>
    /\ v.ok
    /\ \E i \in Indexes(users) :
           /\ users[i].email = LowerCase(email)
           /\ v.claims.userId = users[i].id
           /\ v.claims.email = users[i].email

\* C1: for every request through verifyJWT(handler), the handler is invoked at
\* most once, and only after verifyToken succeeded on the request's Bearer
\* token, with the decoded claims attached as req.user.
GateInvokesHandlerOnceVerified ==
    last.op = "gate" =>
        /\ last.handlerCalls <= 1
        /\ last.handlerCalls = 1 =>
               /\ last.header.value = BearerPrefix \o last.cand.str
               /\ last.verifyCalls = 1
               /\ last.verified = last.cand.str
               /\ last.verifyOk
               /\ Genuine(last.cand, last.at)
               /\ last.reqUser = last.cand.claims

GateAdmitsHeldToken ==
    /\ last.op = "gate"
    /\ last.handlerCalls = 1
    /\ last.cand = held
    /\ last.status = 200
    /\ last.reqUser.userId = 1

\* C2: whenever verifyJWT answers 401, no identity has been attached to the
\* request (req.user is unset on every rejection path).
GateRejectionAttachesNoIdentity ==
    (last.op = "gate" /\ last.status = 401) => last.reqUser = NoClaims

\* C3: a header that is absent or does not start with the exact prefix
\* "Bearer " is rejected by verifyJWT with 401, and neither verifyToken nor
\* the handler is invoked.
GateRejectsOtherSchemes ==
    (last.op = "gate" /\ ~HasBearerScheme(last.header)) =>
        /\ last.status = 401
        /\ ~last.success
        /\ last.verifyCalls = 0
        /\ last.handlerCalls = 0
        /\ last.reqUser = NoClaims

GateRejectsLowerCaseScheme ==
    /\ last.op = "gate"
    /\ last.prefix = <<"b", "e", "a", "r", "e", "r", " ">>
    /\ Genuine(last.cand, last.at)
    /\ last.status = 401
    /\ last.verifyCalls = 0

\* C4: the raw token is exactly what follows the 7-character prefix "Bearer ";
\* when nothing follows it (the header is exactly "Bearer "), the gate and Me
\* (its store connection made) answer 401 without calling verifyToken, the
\* handler or the user lookup.
EmptyBearerTokenRejected ==
    last.op \in {"gate", "me"} =>
        /\ last.verifyCalls = 1 => last.header.value = BearerPrefix \o last.verified
        /\ (last.header.present /\ last.header.value = BearerPrefix /\ last.dbOk) =>
               /\ last.status = 401
               /\ last.verifyCalls = 0
               /\ last.handlerCalls = 0
               /\ last.lookups = 0

MeRejectsEmptyBearerToken ==
    /\ last.op = "me"
    /\ last.header.present
    /\ last.header.value = BearerPrefix
    /\ last.status = 401
    /\ users # <<>>

\* C5: a token issued at t0 with ttl T (7 days when the setting is unset)
\* verifies and returns its issued claims at every check time before t0 + T,
\* and verifyToken fails with "Invalid token" at every check time after t0 + T.
TokenVerifiesUntilExpiry ==
    (last.op = "verify" /\ held # NoCand /\ last.cand = held) =>
        LET expiry == held.claims.iat + (IF envExpiresIn = <<>> THEN 7 ELSE envExpiresIn[1])
        IN  /\ last.at < expiry => (last.verifyOk /\ last.reqUser = held.claims)
            /\ last.at > expiry => (~last.verifyOk /\ last.error = "Invalid token")

DefaultTokenExpired ==
    /\ last.op = "verify"
    /\ held # NoCand
    /\ last.cand = held
    /\ envExpiresIn = <<>>
    /\ last.at > held.claims.iat + 7
    /\ ~last.verifyOk

\* C6: verifyToken rejects every token signed with a secret other than the
\* current signing secret, whatever its claims and expiry; the gate and Me
\* admit only tokens signed under the current secret.
ForeignSecretNeverAdmitted ==
    /\ (/\ last.op \in {"verify", "gate", "me"}
        /\ last.verifyCalls = 1
        /\ last.cand.key # ""
        /\ last.cand.key # JWT_SECRET)
       => /\ ~last.verifyOk
          /\ last.error = "Invalid token"
          /\ last.handlerCalls = 0
          /\ last.lookups = 0
          /\ last.op # "verify" => last.status = 401
    /\ ((last.op = "gate" /\ last.handlerCalls = 1) \/ (last.op = "me" /\ last.lookups = 1))
       => last.cand.key = JWT_SECRET

ForgedAdminTokenRejected ==
    /\ last.op = "gate"
    /\ last.prefix = BearerPrefix
    /\ last.cand.key = "evil"
    /\ last.cand.intact
    /\ last.cand.claims.role = "admin"
    /\ last.at < last.cand.claims.exp
    /\ last.verifyCalls = 1
    /\ last.status = 401

\* C7: Login with an email that has no record and Login with an existing email
\* and a wrong password get the same response, status 401 and the same message
\* (the store answering in both).
LoginFailuresIdentical ==
    (last.op = "login" /\ last.dbOk) =>
        /\ (NoRecord(last.email) /\ last.password # "") =>
               /\ last.status = 401
               /\ \A e \in Emails, p \in Passwords :
                      WrongPassword(e, p) =>
                          Response(login(Blank, e, p, TRUE)) = Response(last)
        /\ WrongPassword(last.email, last.password) =>
               /\ last.status = 401
               /\ \A e \in Emails, p \in Passwords :
                      (NoRecord(e) /\ p # "") =>
                          Response(login(Blank, e, p, TRUE)) = Response(last)

LoginUnknownEmailBesideKnown ==
    /\ last.op = "login"
    /\ last.dbOk
    /\ NoRecord(last.email)
    /\ last.password # ""
    /\ last.status = 401
    /\ \E e \in Emails, p \in Passwords : WrongPassword(e, p)

\* C8, as stated: Signup with an email that already has a record is answered
\* 409 whatever name and password are supplied.
SignupDuplicateAlwaysConflict ==
    (last.op = "signup" /\ last.dbOk /\ last.usedAtStart /\ last.name # "" /\ last.password # "")
        => last.status = 409

\* C8, amended: Signup with an email that already has a record is answered 409
\* and inserts nothing, whatever the name and password, provided the name is
\* present and the password has at least 6 characters (the store answering).
SignupDuplicateConflictWhenValid ==
    (/\ last.op = "signup"
     /\ last.dbOk
     /\ last.usedAtStart
     /\ last.name # ""
     /\ Len(last.password) >= 6)
        => /\ last.status = 409
           /\ last.inserts = 0
           /\ last.token = <<>>

SignupDuplicateOtherNameAndPassword ==
    /\ last.op = "signup"
    /\ last.status = 409
    /\ \E i \in Indexes(users) :
           /\ users[i].email = LowerCase(last.email)
           /\ users[i].name # last.name
           /\ users[i].password.digest # last.password

\* C9: for every valid name, email and password of length >= 6 with an unused
\* email, Signup is answered 201 with a token, and a following Login with the
\* same email and password is answered 200 with a token; both tokens verify to
\* claims whose subject and email are those of the created record.
SignupThenLoginSucceed ==
    /\ (/\ last.op = "signup"
        /\ last.dbOk
        /\ ValidSignup(last)
        /\ ~last.usedAtStart
        /\ ~last.usedAtSave)
       => /\ last.status = 201
          /\ last.success
          /\ TokenNamesRecord(last.token, last.email)
    /\ (/\ last.op = "login"
        /\ last.dbOk
        /\ \E i \in Indexes(users) :
               /\ users[i].email = LowerCase(last.email)
               /\ users[i].password.digest = last.password)
       => /\ last.status = 200
          /\ last.success
          /\ TokenNamesRecord(last.token, last.email)

LoginAfterSignupSucceeds ==
    /\ last.op = "login"
    /\ last.status = 200
    /\ last.token # <<>>
    /\ Len(users) = 2
    /\ last.user.id = 2

\* C10: under any interleaving of Signup requests, two requests for the same
\* email that both pass the lookup included, no two user records share an email.
EmailsUnique ==
    \A i, j \in Indexes(users) : users[i].email = users[j].email => i = j

RacingSignupRefused ==
    /\ last.op = "signup"
    /\ ~last.usedAtStart
    /\ last.usedAtSave
    /\ last.inserts = 1
    /\ Len(users) >= 1

\* C11: in every reachable state of the store no record's password field holds
\* the plaintext supplied at Signup: what Signup persists is a salted hash of
\* the request's password.
StoredPasswordIsHash ==
    /\ \A i \in Indexes(users) :
           /\ users[i].password.alg = "bcrypt"
           /\ users[i].password.salt \in Salts
    /\ (last.op = "signup" /\ last.status = 201) =>
           \E i \in Indexes(users) :
               /\ users[i].email = LowerCase(last.email)
               /\ \E salt \in Salts : users[i].password = Hash(last.password, salt)

SignupStoredHash ==
    /\ last.op = "signup"
    /\ last.status = 201
    /\ last.password = "secret2"
    /\ Len(users) = 2
    /\ users[2].password.alg = "bcrypt"

(* The header carries no usable Bearer token: it is absent, has another
   scheme, or nothing follows "Bearer ". *)
NoUsableToken(header) == ~HasBearerScheme(header) \/ header.value = BearerPrefix

(* The header carries a Bearer token that does not verify now. *)
FailsVerification(h) ==
    /\ HasBearerScheme(h.header)
    /\ h.header.value # BearerPrefix
    /\ ~(h.prefix = BearerPrefix /\ Genuine(h.cand, now))

(* What the gate or Me, whichever answered last, answers to header h *)
AnswerTo(h) ==
    IF last.op = "gate"
    THEN verifyJWT(Blank, h.header, "responds")
    ELSE me(Blank, h.header, TRUE)

\* C12, as stated: the rejection of a request with no usable Bearer token is
\* the same, status and message, as the rejection of a request whose token
\* fails verification.
MissingAndInvalidSameResponse ==
    (last.op \in {"gate", "me"} /\ last.dbOk /\ NoUsableToken(last.header)) =>
        \A h \in Headers :
            FailsVerification(h) => Response(AnswerTo(h)) = Response(last)

\* C12, amended: the rejection of a request with no usable Bearer token has
\* the same status, 401, and the same success flag as the rejection of a
\* request whose token fails verification; the messages differ.
MissingAndInvalidSameStatus ==
    (last.op \in {"gate", "me"} /\ last.dbOk /\ NoUsableToken(last.header)) =>
        /\ last.status = 401
        /\ ~last.success
        /\ \A h \in Headers :
               FailsVerification(h) =>
                   /\ AnswerTo(h).status = last.status
                   /\ AnswerTo(h).success = last.success
                   /\ AnswerTo(h).message # last.message

GateRejectsMissingBesideInvalid ==
    /\ last.op = "gate"
    /\ ~last.header.present
    /\ last.status = 401
    /\ held # NoCand
    /\ now >= held.claims.exp
    /\ \E h \in Headers : h.cand = held /\ FailsVerification(h)

(* The candidate is a token the current secret signed, unaltered, and expired at t. *)
Expired(c, t) == c.intact /\ c.key = JWT_SECRET /\ c.str # <<>> /\ t >= c.claims.exp

(* The candidate is not a token the current secret signed: its structure is
   wrong, its payload was altered, or another key signed it. *)
BadSignature(c) == c.str # <<>> /\ (~c.intact \/ c.key # JWT_SECRET)

BearerHeader(c) ==
    [prefix |-> BearerPrefix, cand |-> c,
     header |-> [present |-> TRUE, value |-> BearerPrefix \o c.str]]

\* C13: an expired token and a token with a bad signature or a malformed
\* structure are rejected alike: verifyToken raises "Invalid token" for both,
\* and the gate and Me answer both with the same status and message.
ExpiredAndTamperedAlike ==
    (/\ last.op \in {"verify", "gate", "me"}
     /\ last.dbOk
     /\ last.op # "verify" => last.prefix = BearerPrefix
     /\ Expired(last.cand, last.at))
    => /\ last.verifyCalls = 1
       /\ ~last.verifyOk
       /\ last.error = "Invalid token"
       /\ \A c \in Candidates :
              BadSignature(c) =>
                  /\ ~verifyToken(c.str).ok
                  /\ verifyToken(c.str).error = last.error
                  /\ last.op # "verify" =>
                         Response(AnswerTo(BearerHeader(c))) = Response(last)

MeRejectsExpiredHeldToken ==
    /\ last.op = "me"
    /\ last.dbOk
    /\ last.prefix = BearerPrefix
    /\ last.cand = held
    /\ Expired(held, last.at)
    /\ last.status = 401

\* C14: Me with a valid token looks the record up by the token's userId: it
\* answers 404 when no record has that id, and otherwise 200 with the fields
\* the record has now, whatever the token's claims say.
MeReturnsCurrentRecord ==
    (/\ last.op = "me"
     /\ last.dbOk
     /\ last.prefix = BearerPrefix
     /\ Genuine(last.cand, last.at))
    => /\ last.lookups = 1
       /\ IF \E i \in Indexes(users) : users[i].id = last.cand.claims.userId
          THEN \E i \in Indexes(users) :
                   /\ users[i].id = last.cand.claims.userId
                   /\ last.status = 200
                   /\ last.success
                   /\ last.user = UserData(users[i])
                   /\ last.user.email = last.cand.claims.email
          ELSE /\ last.status = 404
               /\ ~last.success
               /\ last.message = "User not found"
               /\ last.user = NoUserData

MeShowsRoleChangedAfterIssue ==
    /\ last.op = "me"
    /\ last.cand = held
    /\ last.status = 200
    /\ last.user.email = "ann@x.com"
    /\ held.claims.role = "user"
    /\ last.user.role = "admin"

\* C16: the gate never consults the store: a request carrying a genuine token
\* is admitted with exactly the claims the token was issued with, also when
\* the record's role has changed or the record is gone; a token issued by
\* Login carries the role the record has at that Login.
GateTrustsIssuedClaims ==
    /\ last.op = "gate" =>
           /\ last.connects = 0
           /\ last.lookups = 0
           /\ last.handlerCalls = 1 => last.reqUser = last.cand.claims
    /\ (last.op = "gate" /\ last.prefix = BearerPrefix /\ Genuine(last.cand, last.at)) =>
           /\ last.handlerCalls = 1
           /\ last.reqUser.role = last.cand.claims.role
    /\ (last.op = "login" /\ last.status = 200) =>
           /\ verifyToken(last.token).ok
           /\ verifyToken(last.token).claims.role = FindOne(users, last.email).role

GateAdmitsOldRoleAfterChange ==
    /\ last.op = "gate"
    /\ last.cand = held
    /\ last.handlerCalls = 1
    /\ last.reqUser.role = "user"
    /\ FindById(users, last.reqUser.userId) # NoUser
    /\ FindById(users, last.reqUser.userId).role = "admin"

\* C17: a token that was issued keeps verifying, with the claims it was issued
\* with, in every state reached before its expiry: after further logins, after
\* a change of the record's role and after the record is removed.
IssuedTokenKeepsVerifying ==
    /\ (held # NoCand /\ now < held.claims.exp) =>
           /\ verifyToken(held.str).ok
           /\ verifyToken(held.str).claims = held.claims
    /\ (last.op = "verify" /\ held # NoCand /\ last.cand = held /\ last.at < held.claims.exp) =>
           /\ last.verifyOk
           /\ last.reqUser = held.claims

TokenVerifiesAfterRecordRemoved ==
    /\ last.op = "verify"
    /\ held # NoCand
    /\ last.cand = held
    /\ last.verifyOk
    /\ users = <<>>

\* C15: a Me request with no usable token, or with a token that does not
\* verify, is answered 401 whether the store is populated, empty or
\* unavailable.
MeUnauthenticatedIs401 ==
    (/\ last.op = "me"
     /\ \/ NoUsableToken(last.header)
        \/ ~(last.prefix = BearerPrefix /\ Genuine(last.cand, last.at)))
    => last.status = 401

\* C18: every token generateToken produces has an expiry strictly after its
\* issued-at time, for every value the expiry setting is configured to.
IssuedExpiryAfterIssuedAt ==
    (last.op \in {"signup", "login"} /\ last.issues = 1) =>
        /\ Len(last.token) = 13
        /\ ParseNumber(last.token[6]) > ParseNumber(last.token[5])

\* C19: Signup answers a missing name, email or password with 400, and
\* otherwise a password shorter than 6 characters with 400; for both it has
\* made no lookup by email and no insert, and has issued no token.
SignupValidatesBeforeStore ==
    (last.op = "signup" /\ last.dbOk
       /\ (last.name = "" \/ last.email = "" \/ last.password = "" \/ Len(last.password) < 6))
    => /\ last.status = 400
       /\ ~last.success
       /\ last.message = IF last.name = "" \/ last.email = "" \/ last.password = ""
                         THEN "Please provide all required fields"
                         ELSE "Password must be at least 6 characters long"
       /\ last.lookups = 0
       /\ last.inserts = 0
       /\ last.issues = 0
       /\ last.token = <<>>
       /\ last.user = NoUserData

SignupShortPasswordForKnownEmail ==
    /\ last.op = "signup"
    /\ last.name = "Ann"
    /\ last.password = "abc"
    /\ last.usedAtStart
    /\ last.status = 400
    /\ last.lookups = 0

\* C20: for a record that Signup created with password p, Login runs the
\* password check, which passes exactly when the submitted password is p:
\* Login with p is answered 200 and Login with another password 401.
LoginPassesExactlyOnSignupPassword ==
    (last.op = "login" /\ last.dbOk /\ last.email # "" /\ last.password # "")
    => \A i \in Indexes(users) :
           users[i].email = LowerCase(last.email) =>
               /\ last.compares = 1
               /\ ComparePassword(users[i], last.password)
                      <=> last.password = users[i].password.digest
               /\ last.password = users[i].password.digest =>
                      (last.status = 200 /\ last.success)
               /\ last.password # users[i].password.digest =>
                      (last.status = 401 /\ ~last.success /\ last.token = <<>>)

LoginOtherPasswordRefused ==
    /\ last.op = "login"
    /\ last.email = "bob@x.com"
    /\ last.password = "secret1"
    /\ last.compares = 1
    /\ last.status = 401
    /\ \E i \in Indexes(users) :
           users[i].email = "bob@x.com" /\ users[i].password.digest = "secret2"

UserDataFields == {"id", "name", "email", "role", "avatar", "isVerified", "createdAt"}

\* C21: the user object in a response of Signup, Login or Me has the fields id,
\* name, email, role, avatar, isVerified and createdAt and no other; on
\* success it is that projection of a stored record; neither the message nor
\* the token holds the request's password or a stored password.
ResponsesCarryNoPassword ==
    last.op \in {"signup", "login", "me"} =>
        /\ DOMAIN last.user = UserDataFields
        /\ last.success =>
               \E i \in Indexes(users) :
                   last.user = [f \in UserDataFields |-> users[i][f]]
        /\ ~last.success => last.user = NoUserData
        /\ \A i \in Indexes(users) :
               /\ last.message # users[i].password.digest
               /\ \A k \in 1..Len(last.token) : last.token[k] # users[i].password.digest
        /\ last.password # "" =>
               /\ last.message # last.password
               /\ \A k \in 1..Len(last.token) : last.token[k] # last.password

MeReturnsProjectionOfHashedRecord ==
    /\ last.op = "me"
    /\ last.status = 200
    /\ last.user.email = "ann@x.com"
    /\ \E i \in Indexes(users) :
           users[i].email = "ann@x.com" /\ users[i].password = Hash("secret1", 1)

(* The statuses each endpoint writes *)
Statuses ==
    [signup |-> {201, 400, 409, 500}, login |-> {200, 400, 401, 500},
     me |-> {200, 401, 404, 500}, gate |-> {401}]

\* C22: every response that Signup, Login, Me or the gate writes has a boolean
\* success field that is true exactly when the status is 200 or 201, and every
\* response with success false has a message.
SuccessFlagMatchesStatus ==
    (/\ last.op \in {"signup", "login", "me", "gate"}
     /\ last.status # 0
     /\ ~(last.op = "gate" /\ last.handler = "responds" /\ last.handlerCalls = 1))
    => /\ last.status \in Statuses[last.op]
       /\ last.success \in BOOLEAN
       /\ last.success <=> last.status \in {200, 201}
       /\ ~last.success => last.message # ""

MeNotFoundCarriesMessage ==
    /\ last.op = "me"
    /\ last.status = 404
    /\ ~last.success
    /\ last.message = "User not found"

\* C23: within one request each store operation and the password and token
\* check is attempted at most once, and a store failure during Signup, Login or
\* Me is answered at once with 500 "Internal server error": nothing is
\* inserted, no token is issued and no error detail is returned.
StoreFailureAnsweredOnce ==
    /\ last.connects <= 1 /\ last.lookups <= 1 /\ last.inserts <= 1
    /\ last.compares <= 1 /\ last.verifyCalls <= 1 /\ last.issues <= 1
    /\ (last.op \in {"signup", "login", "me"} /\ ~last.dbOk) =>
           /\ last.status = 500
           /\ ~last.success
           /\ last.message = "Internal server error"
           /\ last.token = <<>>
           /\ last.user = NoUserData
           /\ last.inserts = 0
           /\ last.compares = 0
           /\ last.issues = 0
           /\ (last.op = "signup" /\ ~last.usedAtStart /\ ~last.usedAtSave) =>
                  ~EmailUsed(last.email)
    /\ (last.op = "signup" /\ last.status = 500) => last.message = "Internal server error"

SignupSaveFailureAnswered500 ==
    /\ last.op = "signup"
    /\ ~last.dbOk
    /\ last.lookups = 1
    /\ last.status = 500
    /\ last.email = "bob@x.com"
    /\ NoRecord("bob@x.com")

\* C24: a Signup request that passed the lookup by email and whose insert the
\* store then refuses, because a concurrent request registered the email in
\* between, is answered 409.
RacingSignupAnsweredConflict ==
    (/\ last.op = "signup"
     /\ last.dbOk
     /\ ~last.usedAtStart
     /\ last.usedAtSave
     /\ last.inserts = 1)
    => last.status = 409

\* C25: for every Authorization header and every state of the token, Me
\* reaches its user lookup exactly when verifyJWT invokes its handler for the
\* same header, and Me answers 401 exactly when verifyJWT refuses to invoke
\* it, which verifyJWT also answers 401.
MeAndGateDecideAlike ==
    /\ (last.op = "me" /\ last.dbOk) =>
           \A hk \in HandlerKinds :
               LET g == verifyJWT(Blank, last.header, hk)
               IN  /\ last.lookups = 1 <=> g.handlerCalls = 1
                   /\ last.status = 401 <=> g.handlerCalls = 0
                   /\ g.handlerCalls = 0 => g.status = 401
                   /\ last.verifyCalls = g.verifyCalls
                   /\ last.verifyOk = g.verifyOk
    /\ last.op = "gate" =>
           LET m == me(Blank, last.header, TRUE)
           IN  /\ last.handlerCalls = 1 <=> m.lookups = 1
               /\ last.handlerCalls = 0 <=> m.status = 401
               /\ last.handlerCalls = 0 => last.status = 401

MeRejectsLowerCaseSchemeLikeGate ==
    /\ last.op = "me"
    /\ last.dbOk
    /\ last.prefix = <<"b", "e", "a", "r", "e", "r", " ">>
    /\ Genuine(last.cand, last.at)
    /\ last.status = 401
    /\ verifyJWT(Blank, last.header, "responds").status = 401

\* C26: every Signup request answered with a failure status leaves the store
\* as it was: the store changes only in the step of a Signup request that is
\* answered 201 with a token.
SignupFailureLeavesStoreUnchanged ==
    [][/\ (last'.op = "signup" /\ last'.status # 201) => users' = users
       /\ users' # users =>
              (last'.op = "signup" /\ last'.status = 201 /\ last'.token # <<>>)]_vars

\* C27: a token is issued only on a success path. Login issues one only after
\* the lookup found a record and the password check passed, and does not run
\* the check when the lookup finds nothing; Signup issues one only after the
\* insert succeeded; no response with a failure status carries a token.
TokenIssuedOnlyOnSuccess ==
    /\ (last.op = "login" /\ last.issues = 1) =>
           /\ last.status = 200
           /\ last.lookups = 1
           /\ last.compares = 1
           /\ FindOne(users, last.email) # NoUser
           /\ ComparePassword(FindOne(users, last.email), last.password)
    /\ (last.op = "login" /\ FindOne(users, last.email) = NoUser) => last.compares = 0
    /\ (last.op = "signup" /\ last.issues = 1) =>
           /\ last.status = 201
           /\ last.inserts = 1
           /\ EmailUsed(last.email)
           /\ ~last.usedAtSave
    /\ last.op \in {"signup", "login"} =>
           /\ last.token # <<>> <=> last.issues = 1
           /\ last.status \notin {200, 201} => (last.token = <<>> /\ last.issues = 0)

LoginWrongPasswordCarriesNoToken ==
    /\ last.op = "login"
    /\ last.email = "ann@x.com"
    /\ last.password = "secret2"
    /\ last.compares = 1
    /\ last.status = 401
    /\ last.token = <<>>
    /\ FindOne(users, "ann@x.com").password = Hash("secret1", 1)

\* C28: emails are case-normalised. Every stored email is in lower case; a
\* Signup whose email differs only in letter case from a registered one is
\* answered 409; and Login answers the same for every spelling of an email.
EmailsCaseNormalised ==
    /\ \A i \in Indexes(users) : users[i].email = LowerCase(users[i].email)
    /\ (/\ last.op = "signup"
        /\ last.dbOk
        /\ last.name # ""
        /\ Len(last.password) >= MinPasswordLength
        /\ last.usedAtStart
        /\ last.email # LowerCase(last.email))
       => last.status = 409
    /\ (last.op = "login" /\ last.dbOk) =>
           \A e \in Emails :
               (e # "" /\ LowerCase(e) = LowerCase(last.email)) =>
                   /\ FindOne(users, e) = FindOne(users, last.email)
                   /\ Response(login(Blank, e, last.password, TRUE)) = Response(last)

LoginWithUpperCaseSpelling ==
    /\ last.op = "login"
    /\ last.email = "Ann@x.com"
    /\ last.status = 200
    /\ last.user.email = "ann@x.com"

\* C29: a record created by Signup has the role "user" whatever the request
\* body carries, and the token and the user object of that Signup's response
\* carry the role of the stored record.
SignupCreatesDefaultRole ==
    /\ \A i \in Indexes(users) : users[i].role = "user"
    /\ (last.op = "signup" /\ last.status = 201) =>
           /\ FindOne(users, last.email) # NoUser
           /\ FindOne(users, last.email).role = "user"
           /\ last.user.role = FindOne(users, last.email).role
           /\ verifyToken(last.token).ok
           /\ verifyToken(last.token).claims.role = FindOne(users, last.email).role

SignupWithAdminRoleInBody ==
    /\ last.op = "signup"
    /\ last.bodyRole = "admin"
    /\ last.status = 201
    /\ last.user.role = "user"

\* C30: whenever the auth modal has been opened from a button of Navbar and
\* its mode was not switched since, it shows the form of that button; the
\* mode is always login or signup; nothing is rendered while it is closed.
ModalShowsFormOfButton ==
    /\ (ui.authModalOpen /\ Settled /\ ~ui.switched) =>
           Rendered = (IF ui.authMode = "login" THEN "LoginForm" ELSE "SignupForm")
    /\ ui.mode \in {"login", "signup"}
    /\ ~ui.authModalOpen => Rendered = "nothing"
====
